---- MODULE Spec2Model ----
(***************************************************************************)
(* A model of the realtime relay of src/index.js: the presence map         *)
(* activeSockets, the socket.io connection handler with its five event     *)
(* handlers, the token directory lookup getPushTokens and the push sender  *)
(* sendPushWithRetry.  An asynchronous function is cut at its awaits: each *)
(* action is the code that runs between two suspensions.                   *)
(***************************************************************************)
EXTENDS Integers, Sequences, FiniteSets, TLC

(***************************************************************************)
(* Bounds of the model.                                                    *)
(***************************************************************************)
MaxSockets == 2
MaxFlows == 1
MaxItems == 1
MaxRateLimited == 1

SocketIds == 1..MaxSockets

(***************************************************************************)
(* JavaScript values.  A field that is missing from an object reads as     *)
(* undefined; undefined and the empty string are both falsy.               *)
(***************************************************************************)
Undefined == "<undefined>"

Truthy(s) == s # Undefined /\ s # ""

\* The values a slot of activeSockets can hold or read as: a number, NaN, a
\* non-numeric string, a function (inherited from Object.prototype), or
\* undefined (no such property).
JSUndefined == [t |-> "undefined", n |-> 0]
JSNaN == [t |-> "NaN", n |-> 0]
JSString == [t |-> "string", n |-> 0]
JSFunction == [t |-> "function", n |-> 0]
JSNum(k) == [t |-> "number", n |-> k]

\* ToBoolean
JSTruthy(v) ==
  CASE v.t = "number" -> v.n # 0
    [] v.t = "string" -> TRUE
    [] v.t = "function" -> TRUE
    [] OTHER -> FALSE

\* a || b
JSOr(a, b) == IF JSTruthy(a) THEN a ELSE b

\* v + 1: numeric addition, or string concatenation when v is not a number
\* (a function is converted to its source text first).
JSPlusOne(v) ==
  CASE v.t = "number" -> JSNum(v.n + 1)
    [] v.t = "NaN" -> JSNaN
    [] v.t = "undefined" -> JSNaN
    [] OTHER -> JSString

\* v - 1: always numeric; a non-numeric string or a function converts to NaN.
JSMinusOne(v) ==
  CASE v.t = "number" -> JSNum(v.n - 1)
    [] OTHER -> JSNaN

\* v <= 0: false whenever v converts to NaN.
JSLeqZero(v) == v.t = "number" /\ v.n <= 0

\* v === 0
JSIsZero(v) == v.t = "number" /\ v.n = 0

(***************************************************************************)
(* The identifiers of the model.  "constructor" is a UserId like any       *)
(* other string; it is also the name of a property every plain object      *)
(* inherits from Object.prototype.                                         *)
(***************************************************************************)
UserIds == {"bob", "constructor"}

\* The group of the model carries the id of a user, so that the channels
\* group:bob and user:bob exist side by side.
GroupIds == {"bob"}
HandshakeIds == UserIds \cup {Undefined}

\* The keys of the universe that a plain object ({}) inherits.
ObjectPrototypeKeys == {"constructor"}

\* obj[key] on the plain object activeSockets: the own property when there is
\* one, the inherited one otherwise.
JSGet(obj, key) ==
  IF obj[key] # JSUndefined THEN obj[key]
  ELSE IF key \in ObjectPrototypeKeys THEN JSFunction
  ELSE JSUndefined

\* Room names, as the template strings build them.
UserRoom(userId) == "user:" \o userId
GroupRoom(groupChatId) == "group:" \o groupChatId

VARIABLES
  sockets,        \* socket id -> [connected, userId, rooms]
  activeSockets,  \* the own properties of the presence map
  flows,          \* the sendDirectMessage calls that got past the guard
  last            \* the last step: the handler that ran and what it multicast

vars == <<sockets, activeSockets, flows, last>>

NoSocket == [connected |-> FALSE, userId |-> Undefined, rooms |-> {}]

\* The sockets a multicast to a room reaches (io.to(room).emit).
Members(room) == {s \in SocketIds : sockets[s].connected /\ room \in sockets[s].rooms}

\* The number of connected sockets whose handshake named userId.
LiveCount(userId) ==
  Cardinality({s \in SocketIds : sockets[s].connected /\ sockets[s].userId = userId})

\* What a step leaves in last: the event handled, its routing key and the
\* multicasts it issued. The continuation of a suspended flow is "async".
Handled(op, key, emitted) == [op |-> op, key |-> key, emitted |-> emitted]

\* io.to(room).emit(event, payload): the multicast and the sockets it reaches.
Multicast(event, room, payload) ==
  [event |-> event, room |-> room, payload |-> payload, to |-> Members(room)]

Init ==
  /\ sockets = [s \in SocketIds |-> NoSocket]
  /\ activeSockets = [u \in UserIds |-> JSUndefined]
  /\ flows = <<>>
  /\ last = Handled("listen", Undefined, <<>>)

(***************************************************************************)
(* io.on('connection'): lines 91-111.                                      *)
(***************************************************************************)
\* activeSockets[userId] = (activeSockets[userId] || 0) + 1
markOnline(reg, userId) ==
  [reg EXCEPT ![userId] = JSPlusOne(JSOr(JSGet(reg, userId), JSNum(0)))]

\* activeSockets[userId] = (activeSockets[userId] || 1) - 1;
\* if (activeSockets[userId] <= 0) delete activeSockets[userId]
markOffline(reg, userId) ==
  LET stored == [reg EXCEPT ![userId] = JSMinusOne(JSOr(JSGet(reg, userId), JSNum(1)))]
  IN IF JSLeqZero(JSGet(stored, userId))
       THEN [stored EXCEPT ![userId] = JSUndefined]
       ELSE stored

Connect(s, userId) ==
  /\ ~sockets[s].connected
  /\ IF Truthy(userId)
       THEN /\ sockets' = [sockets EXCEPT ![s] =
                 [connected |-> TRUE, userId |-> userId, rooms |-> {UserRoom(userId)}]]
            /\ activeSockets' = markOnline(activeSockets, userId)
       ELSE /\ sockets' = [sockets EXCEPT ![s] =
                 [connected |-> TRUE, userId |-> userId, rooms |-> {}]]
            /\ UNCHANGED activeSockets
  /\ last' = Handled("connection", userId, <<>>)
  /\ UNCHANGED flows

\* The transport closes the socket and takes it out of every room; the
\* 'disconnect' handler exists only on a socket that connected with a userId.
Disconnect(s) ==
  /\ sockets[s].connected
  /\ sockets' = [sockets EXCEPT ![s] = NoSocket]
  /\ IF Truthy(sockets[s].userId)
       THEN activeSockets' = markOffline(activeSockets, sockets[s].userId)
       ELSE UNCHANGED activeSockets
  /\ last' = Handled("disconnect", sockets[s].userId, <<>>)
  /\ UNCHANGED flows

(***************************************************************************)
(* socket.on('joinGroup'): lines 152-157.                                  *)
(***************************************************************************)
\* A join handler that builds the room name with the prefix of the user
\* channels.
joinGroupUserPrefix(s, groupChatId) ==
  /\ sockets[s].connected
  /\ IF Truthy(groupChatId)
       THEN sockets' = [sockets EXCEPT ![s].rooms = @ \cup {UserRoom(groupChatId)}]
       ELSE UNCHANGED sockets
  /\ last' = Handled("joinGroup", groupChatId, <<>>)
  /\ UNCHANGED <<activeSockets, flows>>

\* A join handler without its if (groupChatId).
joinGroupUnguarded(s, groupChatId) ==
  /\ sockets[s].connected
  /\ sockets' = [sockets EXCEPT ![s].rooms = @ \cup {GroupRoom(groupChatId)}]
  /\ last' = Handled("joinGroup", groupChatId, <<>>)
  /\ UNCHANGED <<activeSockets, flows>>

joinGroup(s, groupChatId) ==
  /\ sockets[s].connected
  /\ IF Truthy(groupChatId)
       THEN sockets' = [sockets EXCEPT ![s].rooms = @ \cup {GroupRoom(groupChatId)}]
       ELSE UNCHANGED sockets
  /\ last' = Handled("joinGroup", groupChatId, <<>>)
  /\ UNCHANGED <<activeSockets, flows>>

(***************************************************************************)
(* socket.on('sendGroupMessage') and socket.on('directMessageRead'):       *)
(* lines 134-149.                                                          *)
(***************************************************************************)
GroupPayloads == [groupChatId : GroupIds \cup {Undefined, ""}, messageContent : {"hi"}]

ReadPayloads == [messageId : {"m1"}, senderId : UserIds \cup {Undefined, ""},
                 readerId : {"alice"}]

\* A group handler without its if (groupChatId).
sendGroupMessageUnguarded(s, payload) ==
  /\ sockets[s].connected
  /\ last' = Handled("sendGroupMessage", payload.groupChatId,
       <<Multicast("newGroupMessage", GroupRoom(payload.groupChatId), payload)>>)
  /\ UNCHANGED <<sockets, activeSockets, flows>>

\* A group handler that emits to every connected socket (io.emit) and not to
\* the group's room.
sendGroupMessageBroadcast(s, payload) ==
  /\ sockets[s].connected
  /\ last' = Handled("sendGroupMessage", payload.groupChatId,
       IF Truthy(payload.groupChatId)
         THEN <<[Multicast("newGroupMessage", GroupRoom(payload.groupChatId), payload)
                   EXCEPT !.to = {t \in SocketIds : sockets[t].connected}]>>
         ELSE <<>>)
  /\ UNCHANGED <<sockets, activeSockets, flows>>

sendGroupMessage(s, payload) ==
  /\ sockets[s].connected
  /\ last' = Handled("sendGroupMessage", payload.groupChatId,
       IF Truthy(payload.groupChatId)
         THEN <<Multicast("newGroupMessage", GroupRoom(payload.groupChatId), payload)>>
         ELSE <<>>)
  /\ UNCHANGED <<sockets, activeSockets, flows>>

\* A read handler that answers the reader and not the original sender.
directMessageReadToReader(s, payload) ==
  /\ sockets[s].connected
  /\ last' = Handled("directMessageRead", payload.senderId,
       IF Truthy(payload.senderId)
         THEN <<Multicast("directMessageRead", UserRoom(payload.readerId), payload)>>
         ELSE <<>>)
  /\ UNCHANGED <<sockets, activeSockets, flows>>

directMessageRead(s, payload) ==
  /\ sockets[s].connected
  /\ last' = Handled("directMessageRead", payload.senderId,
       IF Truthy(payload.senderId)
         THEN <<Multicast("directMessageRead", UserRoom(payload.senderId), payload)>>
         ELSE <<>>)
  /\ UNCHANGED <<sockets, activeSockets, flows>>

(***************************************************************************)
(* getPushTokens: lines 44-58.  The token directory answers with a         *)
(* transport error, a response that is not ok, or an ok response whose     *)
(* body is read by res.json().                                             *)
(***************************************************************************)
ValidTokens == {"ExponentPushToken[a]", "ExponentPushToken[b]"}

\* Expo.isExpoPushToken (expo-server-sdk): the format check of the platform.
isExpoPushToken(token) == token \in ValidTokens

\* A record of data.items: null, or an object whose expoPushToken is a
\* token, the empty string, or missing.
NullRecord == "<null>"
ItemValues == {"ExponentPushToken[a]", "garbage", "", Undefined, NullRecord}

ItemLists == UNION {[1..n -> ItemValues] : n \in 0..MaxItems}

\* The bodies res.json() can meet: text that is not JSON, the JSON null, an
\* object without items, an object whose items is not an array, and an object
\* whose items is an array of records.
Bodies ==
  [shape : {"notJSON", "null", "noItems", "itemsNotArray"}, items : {<<>>}]
    \cup [shape : {"items"}, items : ItemLists]

FetchResults == {"reject", "notOk", "ok"}

Returned(value) == [threw |-> FALSE, value |-> value]
Threw == [threw |-> TRUE, value |-> <<>>]

\* Lines 52-53: const data = await res.json();
\* return data.items?.map(t => t.expoPushToken).filter(Boolean) || []
\* A TypeError is thrown by null.items, by a map that is no function, and by
\* reading expoPushToken of a null record.
ParseBody(body) ==
  CASE body.shape = "notJSON" -> Threw
    [] body.shape = "null" -> Threw
    [] body.shape = "noItems" -> Returned(<<>>)
    [] body.shape = "itemsNotArray" -> Threw
    [] OTHER ->
         IF \E i \in 1..Len(body.items) : body.items[i] = NullRecord
           THEN Threw
           ELSE Returned(SelectSeq(body.items, Truthy))

\* A getPushTokens without its try/catch: what was thrown goes up.
CatchRethrows(result) == result

\* Lines 54-57: catch (err) { console.error(...); return []; }
Catch(result) == IF result.threw THEN Returned(<<>>) ELSE result

\* Lines 46-51, once fetch has settled: a rejection goes to the catch, a
\* response that is not ok returns [] at line 50.
getPushTokensFetched(fetched) ==
  CASE fetched = "reject" -> Catch(Threw)
    [] fetched = "notOk" -> Returned(<<>>)

\* Lines 52-57, once res.json() has settled.
getPushTokensParsed(body) == Catch(ParseBody(body))

(***************************************************************************)
(* sendPushWithRetry: lines 60-89.                                         *)
(***************************************************************************)
MaxAttempts == 5
LastAttempt == 4
InitialDelay == 1000
BackoffFactor == 2
RateLimitStatus == 429

\* What expo.sendPushNotificationsAsync can do: resolve with a ticket (200),
\* or reject with an error whose statusCode is 429 or something else.
Outcomes == {200, RateLimitStatus, 500}

\* A sender without the check of line 61: every token is sent to.
sendPushWithRetryUnchecked(expoPushToken, messageContent) ==
  [token |-> expoPushToken, st |-> "calling", result |-> "none",
   attempt |-> 0, delay |-> InitialDelay,
   calls |-> <<[to |-> expoPushToken, title |-> "New message",
                body |-> messageContent]>>,
   waits |-> <<>>, outcomes |-> <<>>]

\* Lines 61-75, up to the first await: an invalid token returns at once, a
\* valid one builds the message and issues the first call.
sendPushWithRetry(expoPushToken, messageContent) ==
  IF ~isExpoPushToken(expoPushToken)
    THEN [token |-> expoPushToken, st |-> "returned", result |-> "invalid",
          attempt |-> 0, delay |-> 0, calls |-> <<>>, waits |-> <<>>, outcomes |-> <<>>]
    ELSE [token |-> expoPushToken, st |-> "calling", result |-> "none",
          attempt |-> 0, delay |-> InitialDelay,
          calls |-> <<[to |-> expoPushToken, title |-> "New message",
                       body |-> messageContent]>>,
          waits |-> <<>>, outcomes |-> <<>>]

\* A sender that retries after every failure, not only after a 429.
pushSettledRetryAny(task, outcome) ==
  LET seen == [task EXCEPT !.outcomes = Append(@, outcome)]
  IN IF outcome = 200
       THEN [seen EXCEPT !.st = "returned", !.result = "success"]
     ELSE IF task.attempt < LastAttempt
       THEN [seen EXCEPT !.st = "waiting", !.waits = Append(@, task.delay)]
     ELSE [seen EXCEPT !.st = "returned", !.result = "gaveUp"]

\* Lines 75-87, when the call of the current attempt settles: a ticket
\* returns; a 429 with attempts left starts the timer; anything else returns.
pushSettled(task, outcome) ==
  LET seen == [task EXCEPT !.outcomes = Append(@, outcome)]
  IN IF outcome = 200
       THEN [seen EXCEPT !.st = "returned", !.result = "success"]
     ELSE IF outcome = RateLimitStatus /\ task.attempt < LastAttempt
       THEN [seen EXCEPT !.st = "waiting", !.waits = Append(@, task.delay)]
     ELSE [seen EXCEPT !.st = "returned", !.result = "gaveUp"]

\* A sender whose delay grows by a fixed step instead of doubling.
timerFiredLinear(task) ==
  LET next == [task EXCEPT !.delay = @ + InitialDelay, !.attempt = @ + 1]
  IN IF next.attempt < MaxAttempts
       THEN [next EXCEPT !.st = "calling", !.calls = Append(@, task.calls[1])]
       ELSE [next EXCEPT !.st = "returned", !.result = "gaveUp"]

\* Lines 82, 73 and 75, when the timer fires: the delay doubles, the loop
\* counter advances and, while it is below 5, the next call is issued.
timerFired(task) ==
  LET next == [task EXCEPT !.delay = @ * BackoffFactor, !.attempt = @ + 1]
  IN IF next.attempt < MaxAttempts
       THEN [next EXCEPT !.st = "calling", !.calls = Append(@, task.calls[1])]
       ELSE [next EXCEPT !.st = "returned", !.result = "gaveUp"]

(***************************************************************************)
(* socket.on('sendDirectMessage'): lines 114-131.                          *)
(***************************************************************************)
DirectPayloads ==
  [senderId : {"alice"}, recipientId : UserIds \cup {Undefined, ""},
   messageContent : {"hi"}]

\* The first time a kind of step happens in a flow it is noted in its log.
Note(log, what) ==
  IF \E i \in 1..Len(log) : log[i] = what THEN log ELSE Append(log, what)

\* A call of the handler that got past if (recipientId), with nothing done
\* yet. at records the presence map's own entry for the recipient and the
\* recipient's connected sockets when the handler ran.
NewFlow(payload) ==
  [payload |-> payload,
   at |-> [entry |-> activeSockets[payload.recipientId],
           live |-> LiveCount(payload.recipientId)],
   emits |-> <<>>, active |-> JSUndefined, requests |-> <<>>, log |-> <<>>,
   stage |-> "sync", directory |-> "none", body |-> [shape |-> "none", items |-> <<>>],
   tokens |-> <<>>, tasks |-> <<>>]

\* Line 119: io.to(`user:${recipientId}`).emit('newDirectMessage', payload)
emitDirect(f) ==
  [f EXCEPT !.emits = Append(@, Multicast("newDirectMessage",
                                 UserRoom(f.payload.recipientId), f.payload)),
            !.log = Note(@, "emit")]

\* Line 121: const active = activeSockets[recipientId] || 0
readActive(f) ==
  [f EXCEPT !.active = JSOr(JSGet(activeSockets, f.payload.recipientId), JSNum(0)),
            !.log = Note(@, "presence")]

\* A handler that starts the token lookup whatever active is.
pushOrSkipAlways(f) ==
  [f EXCEPT !.requests = Append(@, f.payload.recipientId),
            !.stage = "fetch", !.log = Note(@, "resolve")]

\* Lines 122-129: if (active === 0) the token lookup starts (getPushTokens
\* runs to its await fetch); otherwise the push is skipped and the handler
\* returns.
pushOrSkip(f) ==
  IF JSIsZero(f.active)
    THEN [f EXCEPT !.requests = Append(@, f.payload.recipientId),
                   !.stage = "fetch", !.log = Note(@, "resolve")]
    ELSE [f EXCEPT !.stage = "done"]

\* A handler that multicasts only after the presence check and the start of
\* the token lookup.
directMessageSyncEmitLast(f) == emitDirect(pushOrSkip(readActive(f)))

\* Lines 119-123 in their order.
directMessageSync(f) == pushOrSkip(readActive(emitDirect(f)))

\* A server that takes up the next direct message only when the handler of
\* the one before has returned.
sendDirectMessageSerial(s, payload) ==
  /\ sockets[s].connected
  /\ \A i \in 1..Len(flows) : flows[i].stage = "done"
  /\ IF Truthy(payload.recipientId)
       THEN /\ flows' = Append(flows, directMessageSync(NewFlow(payload)))
            /\ last' = Handled("sendDirectMessage", payload.recipientId,
                               flows'[Len(flows')].emits)
       ELSE /\ UNCHANGED flows
            /\ last' = Handled("sendDirectMessage", payload.recipientId, <<>>)
  /\ UNCHANGED <<sockets, activeSockets>>

\* A handler whose presence read stores its default:
\* activeSockets[recipientId] = activeSockets[recipientId] || 0
sendDirectMessageStoresDefault(s, payload) ==
  /\ sockets[s].connected
  /\ IF Truthy(payload.recipientId)
       THEN /\ flows' = Append(flows, directMessageSync(NewFlow(payload)))
            /\ last' = Handled("sendDirectMessage", payload.recipientId,
                               flows'[Len(flows')].emits)
            /\ activeSockets' = [activeSockets EXCEPT ![payload.recipientId] =
                 JSOr(JSGet(activeSockets, payload.recipientId), JSNum(0))]
       ELSE /\ UNCHANGED <<flows, activeSockets>>
            /\ last' = Handled("sendDirectMessage", payload.recipientId, <<>>)
  /\ UNCHANGED sockets

sendDirectMessage(s, payload) ==
  /\ sockets[s].connected
  /\ IF Truthy(payload.recipientId)
       THEN /\ flows' = Append(flows, directMessageSync(NewFlow(payload)))
            /\ last' = Handled("sendDirectMessage", payload.recipientId,
                               flows'[Len(flows')].emits)
       ELSE /\ UNCHANGED flows
            /\ last' = Handled("sendDirectMessage", payload.recipientId, <<>>)
  /\ UNCHANGED <<sockets, activeSockets>>

AllReturned(tasks) == \A k \in 1..Len(tasks) : tasks[k].st = "returned"

\* Lines 123-124, when getPushTokens has returned: one sendPushWithRetry per
\* token, each run to its first await; Promise.all resolves when all have
\* returned. A getPushTokens that threw would reject the handler.
fanOut(f, result) ==
  IF result.threw
    THEN [f EXCEPT !.stage = "rejected"]
    ELSE LET tasks == [k \in 1..Len(result.value) |->
                         sendPushWithRetry(result.value[k], f.payload.messageContent)]
         IN [f EXCEPT !.tokens = result.value,
                      !.tasks = tasks,
                      !.log = IF \E k \in 1..Len(tasks) : tasks[k].calls # <<>>
                                THEN Note(@, "push") ELSE @,
                      !.stage = IF AllReturned(tasks) THEN "done" ELSE "push"]

Async == Handled("async", Undefined, <<>>)

\* fetch settles (line 47).
FetchSettles(i, fetched) ==
  /\ i \in 1..Len(flows)
  /\ flows[i].stage = "fetch"
  /\ flows' = [flows EXCEPT ![i] =
       IF fetched = "ok"
         THEN [@ EXCEPT !.stage = "json", !.directory = fetched]
         ELSE fanOut([@ EXCEPT !.directory = fetched], getPushTokensFetched(fetched))]
  /\ last' = Async
  /\ UNCHANGED <<sockets, activeSockets>>

\* res.json() settles (line 52).
JsonSettles(i, body) ==
  /\ i \in 1..Len(flows)
  /\ flows[i].stage = "json"
  /\ flows' = [flows EXCEPT ![i] =
       fanOut([@ EXCEPT !.body = body], getPushTokensParsed(body))]
  /\ last' = Async
  /\ UNCHANGED <<sockets, activeSockets>>

\* A join that is over as soon as one send has returned, with the others
\* dropped.
joinTasksAny(f) ==
  IF \E k \in 1..Len(f.tasks) : f.tasks[k].st = "returned"
    THEN [f EXCEPT !.stage = "done"] ELSE f

\* A join that never resumes the handler.
joinTasksNever(f) == f

\* Promise.all (line 124): the handler returns when every send has.
joinTasks(f) == IF AllReturned(f.tasks) THEN [f EXCEPT !.stage = "done"] ELSE f

\* expo.sendPushNotificationsAsync settles (line 75).
PushSettles(i, k, outcome) ==
  /\ i \in 1..Len(flows)
  /\ flows[i].stage = "push"
  /\ k \in 1..Len(flows[i].tasks)
  /\ flows[i].tasks[k].st = "calling"
  /\ flows' = [flows EXCEPT ![i] =
       joinTasks([@ EXCEPT !.tasks[k] = pushSettled(@, outcome),
                           !.log = IF outcome = RateLimitStatus
                                        /\ flows[i].tasks[k].attempt < LastAttempt
                                     THEN Note(@, "wait") ELSE @])]
  /\ last' = Async
  /\ UNCHANGED <<sockets, activeSockets>>

\* The timer of line 81 fires.
TimerFires(i, k) ==
  /\ i \in 1..Len(flows)
  /\ flows[i].stage = "push"
  /\ k \in 1..Len(flows[i].tasks)
  /\ flows[i].tasks[k].st = "waiting"
  /\ flows' = [flows EXCEPT ![i] = joinTasks([@ EXCEPT !.tasks[k] = timerFired(@)])]
  /\ last' = Async
  /\ UNCHANGED <<sockets, activeSockets>>

\* The 429 answers the delivery API has given so far.
RateLimitedSoFar ==
  LET RECURSIVE Sum(_, _)
      Sum(f, k) == IF k = 0 THEN 0
                   ELSE Sum(f, k - 1) + Len(SelectSeq(f.tasks[k].outcomes,
                                                      LAMBDA o : o = RateLimitStatus))
      RECURSIVE All(_)
      All(i) == IF i = 0 THEN 0 ELSE All(i - 1) + Sum(flows[i], Len(flows[i].tasks))
  IN All(Len(flows))

Next ==
  \/ \E s \in SocketIds, u \in HandshakeIds : Connect(s, u)
  \/ \E s \in SocketIds : Disconnect(s)
  \/ \E s \in SocketIds, g \in GroupIds \cup {Undefined, ""} : joinGroup(s, g)
  \/ \E s \in SocketIds, p \in GroupPayloads : sendGroupMessage(s, p)
  \/ \E s \in SocketIds, p \in ReadPayloads : directMessageRead(s, p)
  \/ \E s \in SocketIds, p \in DirectPayloads :
       /\ Truthy(p.recipientId) => Len(flows) < MaxFlows
       /\ sendDirectMessage(s, p)
  \/ \E i \in 1..MaxFlows, r \in FetchResults : FetchSettles(i, r)
  \/ \E i \in 1..MaxFlows, b \in Bodies : JsonSettles(i, b)
  \/ \E i \in 1..MaxFlows, k \in 1..MaxItems, o \in Outcomes :
       /\ o = RateLimitStatus => RateLimitedSoFar < MaxRateLimited
       /\ PushSettles(i, k, o)
  \/ \E i \in 1..MaxFlows, k \in 1..MaxItems : TimerFires(i, k)

Spec == Init /\ [][Next]_vars

(***************************************************************************)
(* The push path on its own: an anonymous sender writes once to a          *)
(* recipient who never connects, the directory answers with up to MaxSends *)
(* records and the delivery API answers every call as it likes.            *)
(***************************************************************************)
MaxSends == 2

SendTokens == {"ExponentPushToken[a]", "ExponentPushToken[b]", "garbage"}

SendBodies ==
  [shape : {"items"}, items : UNION {[1..n -> SendTokens] : n \in 1..MaxSends}]

NextPush ==
  \/ Connect(1, Undefined)
  \/ \E p \in DirectPayloads :
       flows = <<>> /\ p.recipientId = "bob" /\ sendDirectMessage(1, p)
  \/ FetchSettles(1, "ok")
  \/ \E b \in SendBodies : JsonSettles(1, b)
  \/ \E k \in 1..MaxSends, o \in Outcomes : PushSettles(1, k, o)
  \/ \E k \in 1..MaxSends : TimerFires(1, k)

SpecPush == Init /\ [][NextPush]_vars

\* The event loop runs the continuation of every promise that has settled and
\* of every timer that has expired; each request to the directory, each call
\* to the delivery API and each timer is taken to come back.
FairPush ==
  /\ WF_vars(FetchSettles(1, "ok"))
  /\ WF_vars(\E b \in SendBodies : JsonSettles(1, b))
  /\ \A k \in 1..MaxSends :
       /\ WF_vars(\E o \in Outcomes : PushSettles(1, k, o))
       /\ WF_vars(TimerFires(1, k))

SpecPushLive == Init /\ [][NextPush]_vars /\ FairPush

(***************************************************************************)
(* Direct messages in flight side by side: up to MaxBusyFlows handlers of  *)
(* sendDirectMessage to the user bob, who comes and goes, with every event *)
(* of the sockets in between. The directory answers each lookup with one   *)
(* valid address.                                                          *)
(***************************************************************************)
MaxBusyFlows == 2

BusyBody == [shape |-> "items", items |-> <<"ExponentPushToken[a]">>]

NextBusy ==
  \/ \E s \in SocketIds, u \in {"bob", Undefined} : Connect(s, u)
  \/ \E s \in SocketIds : Disconnect(s)
  \/ \E s \in SocketIds, g \in GroupIds \cup {Undefined, ""} : joinGroup(s, g)
  \/ \E s \in SocketIds, p \in GroupPayloads : sendGroupMessage(s, p)
  \/ \E s \in SocketIds, p \in ReadPayloads :
       p.senderId # "constructor" /\ directMessageRead(s, p)
  \/ \E s \in SocketIds, p \in DirectPayloads :
       /\ p.recipientId # "constructor"
       /\ Truthy(p.recipientId) => Len(flows) < MaxBusyFlows
       /\ sendDirectMessage(s, p)
  \/ \E i \in 1..MaxBusyFlows : FetchSettles(i, "ok")
  \/ \E i \in 1..MaxBusyFlows : JsonSettles(i, BusyBody)
  \/ \E i \in 1..MaxBusyFlows, o \in {200, RateLimitStatus} :
       /\ o = RateLimitStatus => RateLimitedSoFar < MaxRateLimited
       /\ PushSettles(i, 1, o)
  \/ \E i \in 1..MaxBusyFlows : TimerFires(i, 1)

SpecBusy == Init /\ [][NextBusy]_vars

(***************************************************************************)
(* The claims.                                                             *)
(***************************************************************************)
Flows == {flows[i] : i \in 1..Len(flows)}

Tasks == UNION {{f.tasks[k] : k \in 1..Len(f.tasks)} : f \in Flows}

\* isOnline(user), as line 121-122 decides it: active is not 0.
isOnline(userId) == ~JSIsZero(JSOr(JSGet(activeSockets, userId), JSNum(0)))

\* The presence map holds an entry for the recipient that says "connected".
EntryOnline(f) == f.at.entry # JSUndefined /\ JSTruthy(f.at.entry)

\* The flow issued exactly one newDirectMessage, to the recipient's user
\* channel, carrying the payload as it came.
OneRealtimeMulticast(f) ==
  /\ Len(f.emits) = 1
  /\ f.emits[1].event = "newDirectMessage"
  /\ f.emits[1].room = UserRoom(f.payload.recipientId)
  /\ f.emits[1].payload = f.payload

\* C1: a direct message handled while the presence map holds a live entry
\* for the recipient issues exactly one newDirectMessage to the recipient's
\* user channel, never resolves tokens and never starts a push.
C1_OnlineNoPush ==
  \A f \in Flows :
    EntryOnline(f) =>
      /\ OneRealtimeMulticast(f)
      /\ f.requests = <<>>
      /\ f.tasks = <<>>
      /\ f.stage = "done"

C1_Witness ==
  \E f \in Flows :
    /\ f.at.entry = JSNum(2)
    /\ f.emits[1].to = SocketIds
    /\ f.stage = "done"

\* C2: a direct message handled while the recipient has no live connection
\* issues exactly one newDirectMessage with the unmodified payload, asks the
\* token directory exactly once for the recipient, and starts one send per
\* resolved address with the payload's messageContent as body.
C2_OfflinePushPerAddress ==
  \A f \in Flows :
    f.at.live = 0 =>
      /\ OneRealtimeMulticast(f)
      /\ f.requests = <<f.payload.recipientId>>
      /\ f.stage \in {"push", "done"} =>
           /\ Len(f.tasks) = Len(f.tokens)
           /\ \A k \in 1..Len(f.tasks) :
                /\ f.tasks[k].token = f.tokens[k]
                /\ \A c \in 1..Len(f.tasks[k].calls) :
                     f.tasks[k].calls[c].body = f.payload.messageContent

\* C2 for the recipients whose id is no inherited property name.
C2_OwnKeysOnly ==
  \A f \in Flows :
    (f.at.live = 0 /\ f.payload.recipientId \notin ObjectPrototypeKeys) =>
      /\ OneRealtimeMulticast(f)
      /\ f.requests = <<f.payload.recipientId>>
      /\ f.stage \in {"push", "done"} =>
           /\ Len(f.tasks) = Len(f.tokens)
           /\ \A k \in 1..Len(f.tasks) : f.tasks[k].token = f.tokens[k]

\* C3: in every flow the multicast is the first thing that happens: the
\* presence check comes second, and token resolution, push calls and retry
\* waits only after both.
C3_MulticastFirst ==
  \A f \in Flows :
    /\ Len(f.log) >= 2
    /\ f.log[1] = "emit"
    /\ f.log[2] = "presence"
    /\ \A j \in 3..Len(f.log) : f.log[j] \in {"resolve", "push", "wait"}

C3_Witness ==
  \E f \in Flows : f.log = <<"emit", "presence", "resolve", "push", "wait">>

\* C4: a user with no connected socket is not online and has no entry in the
\* presence map; a user with more connects than disconnects is online.
C4_OnlineIffConnected ==
  \A u \in UserIds :
    /\ LiveCount(u) > 0 => isOnline(u)
    /\ LiveCount(u) = 0 => (~isOnline(u) /\ activeSockets[u] = JSUndefined)

\* C4 for the users whose id is no inherited property name.
C4_OwnKeysOnly ==
  \A u \in UserIds \ ObjectPrototypeKeys :
    /\ LiveCount(u) > 0 => isOnline(u)
    /\ LiveCount(u) = 0 => (~isOnline(u) /\ activeSockets[u] = JSUndefined)

\* C5: every entry of the presence map is a count of at least 1.
C5_EntriesAtLeastOne ==
  \A u \in UserIds :
    activeSockets[u] # JSUndefined =>
      (activeSockets[u].t = "number" /\ activeSockets[u].n >= 1)

\* C5 for the users whose id is no inherited property name.
C5_OwnKeysOnly ==
  \A u \in UserIds \ ObjectPrototypeKeys :
    activeSockets[u] # JSUndefined =>
      (activeSockets[u].t = "number" /\ activeSockets[u].n >= 1)

\* C6: a send to a valid address makes one call per outcome it has seen, at
\* most 5; every outcome before the last is a 429; it returns at the first
\* ticket (success) or the first failure that is no 429 (gave up), and after
\* a 429 only when that was the fifth call (gave up).
C6_AttemptsUntilTerminal ==
  \A task \in Tasks :
    isExpoPushToken(task.token) =>
      LET n == Len(task.outcomes)
      IN /\ Len(task.calls) <= MaxAttempts
         /\ Len(task.calls) = (IF task.st = "calling" THEN n + 1 ELSE n)
         /\ \A j \in 1..(n - 1) : task.outcomes[j] = RateLimitStatus
         /\ task.st = "waiting" => (task.outcomes[n] = RateLimitStatus /\ n < MaxAttempts)
         /\ task.st = "calling" => (n = 0 \/ task.outcomes[n] = RateLimitStatus)
         /\ task.st = "returned" =>
              /\ n >= 1
              /\ task.outcomes[n] = 200 => task.result = "success"
              /\ task.outcomes[n] # 200 => task.result = "gaveUp"
              /\ task.outcomes[n] = RateLimitStatus => n = MaxAttempts

C6_Witness ==
  \E task \in Tasks :
    /\ task.outcomes = <<RateLimitStatus, RateLimitStatus, RateLimitStatus,
                         RateLimitStatus, 200>>
    /\ Len(task.calls) = 5
    /\ task.result = "success"

\* C7: the wait before call i+1 is 1000 * 2^(i-1) ms; there is one wait
\* between two calls and none after the last call, so a send waits at most
\* 15000 ms in all.
SumSeq(s) ==
  LET RECURSIVE Sum(_)
      Sum(k) == IF k = 0 THEN 0 ELSE Sum(k - 1) + s[k]
  IN Sum(Len(s))

C7_BackoffDelays ==
  \A task \in Tasks :
    /\ \A j \in 1..Len(task.waits) : task.waits[j] = 1000 * 2 ^ (j - 1)
    /\ Len(task.waits) <= 4
    /\ SumSeq(task.waits) <= 15000
    /\ task.calls # <<>> =>
         Len(task.waits) = (IF task.st = "waiting" THEN Len(task.calls)
                            ELSE Len(task.calls) - 1)
    /\ task.calls = <<>> => task.waits = <<>>

C7_Witness ==
  \E task \in Tasks :
    /\ task.waits = <<1000, 2000, 4000, 8000>>
    /\ task.st = "returned"

\* The populated expoPushToken fields of a list of records, in order.
Populated(items) ==
  LET RECURSIVE Keep(_)
      Keep(k) == IF k = 0 THEN <<>>
                 ELSE IF items[k] \in {"", Undefined} THEN Keep(k - 1)
                 ELSE Append(Keep(k - 1), items[k])
  IN Keep(Len(items))

\* C8: getPushTokens never throws into the handler; a transport error, a
\* response that is not ok and a malformed body each give no token, no push
\* and a handler that returns; a well-formed body gives exactly its
\* populated expoPushToken fields.
C8_ResolverAbsorbsFailures ==
  \A f \in Flows :
    /\ f.stage # "rejected"
    /\ (\/ f.directory \in {"reject", "notOk"}
        \/ f.body.shape \in {"notJSON", "null", "itemsNotArray"}
        \/ \E j \in 1..Len(f.body.items) : f.body.items[j] = NullRecord)
         => (f.tokens = <<>> /\ f.tasks = <<>> /\ f.stage = "done")
    /\ (f.body.shape = "items"
          /\ \A j \in 1..Len(f.body.items) : f.body.items[j] # NullRecord)
         => f.tokens = Populated(f.body.items)
    /\ f.body.shape = "noItems" => f.tokens = <<>>

C8_Witness ==
  \E f \in Flows :
    /\ f.at.live = 0
    /\ f.directory = "notOk"
    /\ f.tokens = <<>>
    /\ f.stage = "done"

\* C9: a sendDirectMessage, sendGroupMessage or directMessageRead whose
\* routing key is missing or empty multicasts nothing and changes neither
\* the sockets' rooms, nor the presence map, nor any flow.
RouterEvents == {"sendDirectMessage", "sendGroupMessage", "directMessageRead"}

Joined(room) == {t \in SocketIds : sockets[t].connected /\ room \in sockets[t].rooms}

\* C11: a sendGroupMessage with a non-empty groupChatId issues exactly one
\* multicast, newGroupMessage, with the payload as it came, to the sockets
\* that have joined the group's channel and to no other (the sender only if
\* it joined); it starts no flow, so it reads no presence, resolves no token
\* and makes no push attempt, and it changes no room and no presence entry.
C11_GroupMulticastOnly ==
  [][\A s \in SocketIds, p \in GroupPayloads :
       (sendGroupMessage(s, p) /\ Truthy(p.groupChatId)) =>
         /\ Len(last'.emitted) = 1
         /\ last'.emitted[1].event = "newGroupMessage"
         /\ last'.emitted[1].room = "group:" \o p.groupChatId
         /\ last'.emitted[1].payload = p
         /\ last'.emitted[1].to = Joined("group:" \o p.groupChatId)
         /\ UNCHANGED <<sockets, activeSockets, flows>>]_vars

\* A group message is multicast while both sockets are connected, only one
\* has joined the group, and nobody is registered as present.
C11_Witness ==
  /\ last.op = "sendGroupMessage"
  /\ last.key = "bob"
  /\ Len(last.emitted) = 1
  /\ Cardinality(last.emitted[1].to) = 1
  /\ \A s \in SocketIds : sockets[s].connected /\ ~Truthy(sockets[s].userId)
  /\ \A u \in UserIds : activeSockets[u] = JSUndefined
  /\ flows = <<>>

\* C12: a directMessageRead with a non-empty senderId issues exactly one
\* multicast, directMessageRead, with the payload as it came, to the user
\* channel of senderId and not of readerId; it starts no flow, so it resolves
\* no token and makes no push attempt, whether or not senderId is connected.
C12_ReadReceiptOnly ==
  [][\A s \in SocketIds, p \in ReadPayloads :
       (directMessageRead(s, p) /\ Truthy(p.senderId)) =>
         /\ Len(last'.emitted) = 1
         /\ last'.emitted[1].event = "directMessageRead"
         /\ last'.emitted[1].room = "user:" \o p.senderId
         /\ last'.emitted[1].payload = p
         /\ last'.emitted[1].to = Joined("user:" \o p.senderId)
         /\ UNCHANGED <<sockets, activeSockets, flows>>]_vars

\* A read receipt is multicast for a sender who has no connected socket.
C12_Witness ==
  /\ last.op = "directMessageRead"
  /\ last.key = "bob"
  /\ Len(last.emitted) = 1
  /\ last.emitted[1].to = {}
  /\ LiveCount("bob") = 0
  /\ flows = <<>>

\* C13: the presence map changes only in the connection or disconnect step
\* of a socket whose handshake carried a userId, and then only at that
\* userId; the four event handlers and every continuation of a flow (token
\* lookup, push call, timer) leave it as it is, and so do the connection and
\* disconnect of a socket without userId.
C13_RegistryFrame ==
  [][/\ activeSockets' # activeSockets =>
          \E s \in SocketIds, u \in UserIds :
            /\ Connect(s, u) \/ (Disconnect(s) /\ sockets[s].userId = u)
            /\ \A v \in UserIds \ {u} : activeSockets'[v] = activeSockets[v]
     /\ last'.op \in {"sendDirectMessage", "sendGroupMessage", "directMessageRead",
                      "joinGroup", "async"} => UNCHANGED activeSockets
     /\ (last'.op \in {"connection", "disconnect"} /\ ~Truthy(last'.key))
          => UNCHANGED activeSockets]_vars

\* A direct message to an absent user went through token lookup and a push;
\* the user connected meanwhile and an anonymous socket has just closed: the
\* map holds the one entry of the one identified socket.
C13_Witness ==
  /\ last.op = "disconnect"
  /\ last.key = Undefined
  /\ activeSockets["bob"] = JSNum(1)
  /\ activeSockets["constructor"] = JSUndefined
  /\ \E f \in Flows : f.tasks # <<>> /\ f.stage = "done" /\ f.at.live = 0

\* sendPushWithRetry called on its own and fed a list of outcomes, one per
\* call, the timer firing between a 429 and the next call.
AloneRun(token, body, outcomes) ==
  LET RECURSIVE Run(_)
      Run(n) ==
        IF n = 0 THEN sendPushWithRetry(token, body)
        ELSE LET before == Run(n - 1)
                 ready == IF before.st = "waiting" THEN timerFired(before) ELSE before
             IN pushSettled(ready, outcomes[n])
  IN Run(Len(outcomes))

\* C14: in the fan-out of one direct message every send is where it would be
\* had it been called alone with the outcomes it has seen: the same calls,
\* the same waits, the same result; and while a send has not returned the
\* handler is still awaiting it, whatever the other sends have come to.
C14_SendsIndependent ==
  \A f \in Flows :
    f.stage \in {"push", "done"} =>
      /\ Len(f.tasks) = Len(f.tokens)
      /\ \A k \in 1..Len(f.tasks) :
           LET task == f.tasks[k]
               alone == AloneRun(f.tokens[k], f.payload.messageContent, task.outcomes)
           IN /\ \/ task = alone
                 \/ alone.st = "waiting" /\ task = timerFired(alone)
              /\ task.st # "returned" => f.stage = "push"

\* The first address gave up on its first call; the second went on through
\* four rate limits and succeeded on the fifth call.
C14_Witness ==
  \E f \in Flows :
    /\ Len(f.tasks) = 2
    /\ f.tasks[1].outcomes = <<500>>
    /\ f.tasks[1].result = "gaveUp"
    /\ f.tasks[2].outcomes = <<RateLimitStatus, RateLimitStatus, RateLimitStatus,
                               RateLimitStatus, 200>>
    /\ f.tasks[2].waits = <<1000, 2000, 4000, 8000>>
    /\ f.tasks[2].result = "success"
    /\ f.stage = "done"

\* C15: a send to an address that fails Expo.isExpoPushToken makes no call
\* to the delivery API, starts no timer and has returned, and the handler
\* that called it is not rejected.
C15_InvalidAddressNoOp ==
  \A f \in Flows :
    /\ f.stage # "rejected"
    /\ \A k \in 1..Len(f.tasks) :
         ~isExpoPushToken(f.tasks[k].token) =>
           /\ f.tasks[k].calls = <<>>
           /\ f.tasks[k].waits = <<>>
           /\ f.tasks[k].outcomes = <<>>
           /\ f.tasks[k].st = "returned"
           /\ f.tasks[k].result = "invalid"

\* The directory named an invalid address before a valid one: the invalid
\* one was skipped and the valid one was sent to.
C15_Witness ==
  \E f \in Flows :
    /\ f.tokens = <<"garbage", "ExponentPushToken[a]">>
    /\ f.tasks[1].calls = <<>>
    /\ f.tasks[1].st = "returned"
    /\ f.tasks[2].result = "success"
    /\ f.stage = "done"

\* C16: no send ever makes more than 5 calls and no handler is ever
\* rejected; every send that was started returns, a send to a valid address
\* as a success or as given up; and every handler that got past its guard
\* finishes.
C16_SendsTerminate ==
  /\ [](\A task \in Tasks : Len(task.calls) <= MaxAttempts)
  /\ [](\A f \in Flows : f.stage # "rejected")
  /\ \A k \in 1..MaxSends :
       (flows # <<>> /\ Len(flows[1].tasks) >= k)
         ~> (/\ flows # <<>>
             /\ Len(flows[1].tasks) >= k
             /\ flows[1].tasks[k].st = "returned"
             /\ isExpoPushToken(flows[1].tasks[k].token)
                  => flows[1].tasks[k].result \in {"success", "gaveUp"})
  /\ (flows # <<>>) ~> (flows # <<>> /\ flows[1].stage = "done")

\* Both sends used all five calls: one was rate limited five times, the
\* other four times and then refused; the handler has finished.
C16_Witness ==
  \E f \in Flows :
    /\ Len(f.tasks) = 2
    /\ f.tasks[1].outcomes = <<RateLimitStatus, RateLimitStatus, RateLimitStatus,
                               RateLimitStatus, RateLimitStatus>>
    /\ f.tasks[2].outcomes = <<RateLimitStatus, RateLimitStatus, RateLimitStatus,
                               RateLimitStatus, 500>>
    /\ f.tasks[1].result = "gaveUp"
    /\ f.tasks[2].result = "gaveUp"
    /\ f.stage = "done"

\* The entry the presence map should hold for a user with n connected
\* sockets: none for 0, the number n otherwise.
CountEntry(n) == IF n = 0 THEN JSUndefined ELSE JSNum(n)

\* C17: after any interleaving of connects and disconnects the presence
\* map's entry of every user is the number of connected sockets that named
\* that user in their handshake, and the user is online exactly while that
\* number is not 0.
C17_CountEqualsLive ==
  \A u \in UserIds :
    /\ activeSockets[u] = CountEntry(LiveCount(u))
    /\ isOnline(u) <=> LiveCount(u) > 0

\* C17 for the users whose id is no inherited property name.
C17_OwnKeysOnly ==
  \A u \in UserIds \ ObjectPrototypeKeys :
    /\ activeSockets[u] = CountEntry(LiveCount(u))
    /\ isOnline(u) <=> LiveCount(u) > 0

\* A handler of sendDirectMessage that is waiting at one of its awaits: for
\* the directory (fetch, res.json), or for its sends (a call or a timer).
Suspended(f) == f.stage \in {"fetch", "json", "push"}

\* C18: while a flow is suspended, every event of every connected socket can
\* be handled, every unconnected socket can connect and every connected one
\* can disconnect; and the step that handles such an event issues its
\* multicast at once and leaves every flow where it was.
C18_SuspendedFlowBlocksNothing ==
  /\ []((\E f \in Flows : Suspended(f)) =>
         \A s \in SocketIds :
           IF sockets[s].connected
             THEN /\ ENABLED Disconnect(s)
                  /\ \A g \in GroupIds : ENABLED joinGroup(s, g)
                  /\ \A p \in GroupPayloads : ENABLED sendGroupMessage(s, p)
                  /\ \A p \in ReadPayloads : ENABLED directMessageRead(s, p)
                  /\ \A p \in DirectPayloads : ENABLED sendDirectMessage(s, p)
             ELSE \A u \in HandshakeIds : ENABLED Connect(s, u))
  /\ [][((\E f \in Flows : Suspended(f)) /\ last'.op # "async") =>
          /\ \A i \in 1..Len(flows) : flows'[i] = flows[i]
          /\ (last'.op \in RouterEvents /\ Truthy(last'.key)) =>
               /\ Len(last'.emitted) = 1
               /\ last'.emitted[1].to =
                    {t \in SocketIds : sockets'[t].connected
                                         /\ last'.emitted[1].room \in sockets'[t].rooms}
          /\ (last'.op = "sendDirectMessage" /\ Truthy(last'.key)) =>
               Len(flows') = Len(flows) + 1]_vars

\* The first direct message is in a backoff wait; the recipient connected
\* meanwhile, and a second direct message has just been delivered to the
\* recipient's socket and its handler has returned.
C18_Witness ==
  /\ Len(flows) = 2
  /\ flows[1].stage = "push"
  /\ flows[1].tasks[1].st = "waiting"
  /\ flows[2].stage = "done"
  /\ last.op = "sendDirectMessage"
  /\ Len(last.emitted) = 1
  /\ last.emitted[1].to # {}

\* The push path of a flow went ahead: the directory was asked once for the
\* recipient and, once it has answered, there is one send per address and
\* every send to a valid address has made its first call.
PushWentAhead(f) ==
  /\ f.requests = <<f.payload.recipientId>>
  /\ f.stage # "sync"
  /\ f.stage \in {"push", "done"} =>
       /\ Len(f.tasks) = Len(f.tokens)
       /\ \A k \in 1..Len(f.tasks) :
            isExpoPushToken(f.tokens[k]) => f.tasks[k].calls # <<>>

\* The push path of a flow was never entered.
PushNeverStarted(f) ==
  f.requests = <<>> /\ f.tokens = <<>> /\ f.tasks = <<>> /\ f.stage = "done"

\* C19: whether a direct message is pushed is settled in the step that
\* multicast it: if the recipient had no connected socket in that step the
\* push path goes ahead, and if the recipient had one it is never entered,
\* whatever the recipient's sockets do afterwards.
C19_DecisionTakenOnce ==
  \A f \in Flows :
    /\ f.at.live = 0 => PushWentAhead(f)
    /\ f.at.live > 0 => PushNeverStarted(f)

\* C19 for the recipients whose id is no inherited property name.
C19_OwnKeysOnly ==
  \A f \in Flows :
    f.payload.recipientId \notin ObjectPrototypeKeys =>
      /\ f.at.live = 0 => PushWentAhead(f)
      /\ f.at.live > 0 => PushNeverStarted(f)

\* C19 with "offline" read as the value line 121 got from the presence map
\* in the step of the multicast, for every recipient: the branch taken is
\* that value's, and no later change of the map moves the flow to the other.
C19_ByValueRead ==
  \A f \in Flows :
    LET entry == IF f.at.entry # JSUndefined THEN f.at.entry
                 ELSE IF f.payload.recipientId \in ObjectPrototypeKeys THEN JSFunction
                 ELSE JSUndefined
        read == JSOr(entry, JSNum(0))
    IN /\ f.active = read
       /\ JSIsZero(read) => PushWentAhead(f)
       /\ ~JSIsZero(read) => PushNeverStarted(f)

\* A message sent while the recipient was away was pushed although the
\* recipient is connected by now.
C19_PushedAfterConnect ==
  \E f \in Flows :
    /\ f.at.live = 0
    /\ f.tasks # <<>>
    /\ f.tasks[1].outcomes = <<RateLimitStatus, 200>>
    /\ LiveCount(f.payload.recipientId) > 0
    /\ isOnline(f.payload.recipientId)

\* A message sent while the recipient was connected was not pushed although
\* the recipient has no socket left.
C19_SkippedAfterDisconnect ==
  \E f \in Flows :
    /\ f.at.live > 0
    /\ PushNeverStarted(f)
    /\ LiveCount(f.payload.recipientId) = 0
    /\ ~isOnline(f.payload.recipientId)

\* The events that are addressed to a user.
UserEvents == {"newDirectMessage", "directMessageRead"}

\* C20: every room a socket is in is the user channel of the userId of its
\* own handshake or a group channel, and no group channel is a user channel,
\* even for a group whose id is a user's; so a socket without userId is in
\* no user channel, and a newDirectMessage or directMessageRead addressed to
\* a user reaches only sockets whose handshake named that user.
C20_ChannelIsolation ==
  /\ \A g \in GroupIds \cup UserIds, u \in UserIds : "group:" \o g # "user:" \o u
  /\ \A s \in SocketIds :
       /\ \A room \in sockets[s].rooms :
            \/ room \in {"group:" \o g : g \in GroupIds}
            \/ Truthy(sockets[s].userId) /\ room = "user:" \o sockets[s].userId
       /\ \A u \in UserIds :
            ("user:" \o u) \in sockets[s].rooms =>
              (sockets[s].connected /\ sockets[s].userId = u)
  /\ \A j \in 1..Len(last.emitted) :
       last.emitted[j].event \in UserEvents =>
         /\ last.emitted[j].room = "user:" \o last.key
         /\ \A t \in last.emitted[j].to :
              sockets[t].connected /\ sockets[t].userId = last.key

\* A direct message to bob is multicast while one socket is connected as bob
\* and the other, connected as another user, has joined the group whose id
\* is bob: only the first receives it.
C20_Witness ==
  /\ last.op = "sendDirectMessage"
  /\ last.key = "bob"
  /\ Len(last.emitted) = 1
  /\ \E s1, s2 \in SocketIds :
       /\ sockets[s1].userId = "bob"
       /\ sockets[s1].rooms = {"user:bob"}
       /\ sockets[s2].userId = "constructor"
       /\ sockets[s2].rooms = {"user:constructor", "group:bob"}
       /\ last.emitted[1].to = {s1}
====
